---- MODULE Spec2Model ----
(***************************************************************************)
(* A model of the two interaction engines of 3d-brain-interactive:         *)
(*   - the continuous wave field over a point cloud (src/src/App.tsx),     *)
(*   - the impulse with decay over a mesh (src/unnamed/part_001).          *)
(* Both are React components whose single effect builds a three.js scene,  *)
(* starts an asynchronous load, registers listeners and runs a             *)
(* requestAnimationFrame loop.  Numbers are fixed point: one unit is       *)
(* 1/SCALE, every product is rounded to the nearest unit.                  *)
(***************************************************************************)
EXTENDS Integers, Sequences, FiniteSets, TLC

\* ------------------------------------------------------------------------
\* Fixed-point arithmetic and the THREE.Vector3 operations the code uses
\* ------------------------------------------------------------------------

SCALE == 100 * 100

Abs(n) == IF n < 0 THEN -n ELSE n

\* n / d rounded to the nearest integer (d > 0), halves away from zero
Rnd(n, d) == IF n >= 0 THEN (2 * n + d) \div (2 * d) ELSE -((2 * (-n) + d) \div (2 * d))

\* product of two fixed-point numbers
Mul(a, b) == Rnd(a * b, SCALE)

RECURSIVE SqrtIter(_, _, _)
SqrtIter(n, lo, hi) ==
    IF lo >= hi THEN lo
    ELSE LET mid == (lo + hi + 1) \div 2
         IN IF mid * mid <= n THEN SqrtIter(n, mid, hi) ELSE SqrtIter(n, lo, mid - 1)

\* Math.sqrt on integers: the nearest integer to the square root of n
ISqrt(n) ==
    LET r == SqrtIter(n, 0, 46340)
    IN IF n - r * r > r THEN r + 1 ELSE r

ZeroVec == <<0, 0, 0>>

VAdd(a, b) == <<a[1] + b[1], a[2] + b[2], a[3] + b[3]>>

VSub(a, b) == <<a[1] - b[1], a[2] - b[2], a[3] - b[3]>>

\* Vector3.multiplyScalar with a fixed-point scalar
MultiplyScalar(v, s) == <<Mul(v[1], s), Mul(v[2], s), Mul(v[3], s)>>

Dot(a, b) == a[1] * b[1] + a[2] * b[2] + a[3] * b[3]

\* Vector3.lengthSq, exact, in squared units
LengthSq(v) == Dot(v, v)

\* Vector3.length, in units
Length(v) == ISqrt(LengthSq(v))

\* Vector3.normalize: divideScalar(length() || 1), so the zero vector stays zero
Normalize(v) ==
    LET l == Length(v)
    IN IF l = 0 THEN v
       ELSE <<Rnd(v[1] * SCALE, l), Rnd(v[2] * SCALE, l), Rnd(v[3] * SCALE, l)>>

DistanceToSquared(a, b) == LengthSq(VSub(a, b))

DistanceTo(a, b) == Length(VSub(a, b))

\* Vector3.lerp: this += (v - this) * alpha
Lerp(cur, target, alpha) == VAdd(cur, MultiplyScalar(VSub(target, cur), alpha))

\* Math.PI, in units
PI == 31416

TWO_PI == 2 * PI

\* Math.sin: the argument is reduced to [0, 2 pi) and each half wave is
\* Bhaskara's rational approximation 16 y (pi - y) / (5 pi^2 - 4 y (pi - y))
SinHalf(y) ==
    LET p == Mul(y, PI - y)
    IN 4 * Rnd(4 * p * SCALE, 5 * Mul(PI, PI) - 4 * p)

Sin(a) ==
    LET y == a % TWO_PI
    IN IF y <= PI THEN SinHalf(y) ELSE -SinHalf(y - PI)

Cos(a) == Sin(a + PI \div 2)

\* ------------------------------------------------------------------------
\* Program constants (fixed point)
\* ------------------------------------------------------------------------

\* src/src/App.tsx
WAVE_STRENGTH == 30000
WAVE_SPEED == 1500
MAGNETIC_FORCE == 800
FRICTION == 9200
INTERACTION_RADIUS == 25000
SWIRL_STRENGTH == 3000
TURBULENCE == 4000

\* src/unnamed/part_001
PUSH_STRENGTH == 8000
LERP_FACTOR == 800
INTERACTION_RADIUS_SQ == 15000
DECAY_FACTOR == 9500

\* the threshold 0.001 of animate's offset.lengthSq() and distanceToSquared
\* tests, in squared units
OFFSET_EPSILON_SQ == (SCALE * SCALE) \div 1000

\* ------------------------------------------------------------------------
\* Bounds and the bounded inputs
\* ------------------------------------------------------------------------

\* requestAnimationFrame calls in one behaviour
MaxFrames == 3

\* host events (pointer, touch, resize, unmount) in one behaviour
MaxInputs == 2

\* runs of the effect (the first run and the re-runs)
MaxEffects == 2

\* requestAnimationFrame calls in a behaviour without host events: more than
\* one period of the breathing term at 60 frames a second (2 pi / 0.0167)
MaxRestFrames == 400

\* requestAnimationFrame calls in a behaviour in which the presses stop: the
\* decay of two added pushes (77 frames) and the easing after it (95 frames)
MaxSettleFrames == 200

\* the presses stop once this many requestAnimationFrame calls were made
MaxPressFrames == 3

\* Date.now() * 0.001 (modulo 2 pi) when the component mounts
NowAngles == {0, PI \div 2}

\* what Date.now() * 0.001 advances between two animate calls (16.7 ms)
FrameInterval == 167

\* The vertices the loader delivers (vertices.json, or the mesh's position
\* attribute).  Vertices 1 and 3 lie on the y axis at distance 1.17 from each
\* other, just inside sqrt(1.5); vertex 2 lies at distance 0.30 from vertex 1,
\* on the side away from vertex 3 and farther than sqrt(1.5) from it.
Vertices == << <<0, 5000, 0>>, <<400, 8000, 300>>, <<0, -6727, 0>> >>

NumVertices == Len(Vertices)

Indices == 1..NumVertices

\* outcomes of the three (Math.random() - 0.5) draws of a fallback direction
RandomTriples == {<<0, 0, 0>>, <<-5000, 0, 0>>, <<3000, -4000, 1200>>}

\* clientWidth / clientHeight of the mount element (100vw x 100vh)
Viewports == {<<1024, 768>>, <<768, 1024>>}

\* ------------------------------------------------------------------------
\* State
\* ------------------------------------------------------------------------

VARIABLES
    variant,                \* "wave" (src/src/App.tsx) or "impulse" (part_001)
    mounted,                \* the component is mounted (no final cleanup yet)
    effectGen,              \* the run of the effect whose closures are current
    listeners,              \* the effect runs whose listeners are attached
    sceneRef,               \* sceneRef.current: the effect run that built it
    rafQueue,               \* requested animation frames: [id, gen]
    animationIdRef,         \* animationIdRef.current (0 is null)
    rafSeq,                 \* requestAnimationFrame calls so far
    loads,                  \* loadVertices / loadModel calls in flight
    sceneChildren,          \* the models added to each scene
    cameraZ,                \* cameraRef.current.position.z
    everLoaded,             \* some load has completed successfully
    viewport,               \* clientWidth, clientHeight of the mount element
    cameraAspect,           \* the pair camera.aspect is the quotient of
    rendererSize,           \* renderer.setSize arguments
    isLoading,
    loadingError,
    userAgentMobile,        \* mobileRegex.test(userAgent)
    isMobile,               \* the isMobile state of the committed render
    isMobileQueued,         \* the last setIsMobile argument
    mobileCause,            \* what made the last setIsMobile call that changed it
    pointsRef,              \* wave: pointsRef.current (0 is null)
    brainMeshRef,           \* impulse: brainMeshRef.current (0 is null)
    originalPositionsRef,   \* <<>> is null
    pointsPosition,         \* points.position
    rotationY,              \* rotation.y of the model, in steps of 0.003
    positions,              \* the position buffer of the current model
    particlePhysics,        \* wave: particlePhysicsRef.current
    targetOffsets,          \* impulse: targetOffsetsRef.current
    isInteracting,
    mousePosition,
    previousMousePosition,
    mouseVelocity,
    interactionPoint,       \* interactionPointRef.current (<<>> is null)
    waveTime,               \* waveTimeRef.current
    clock,                  \* Date.now() * 0.001 at the last animate call
    frameLog,               \* what the last animate call did, in order
    lastOp,                 \* the handler that ran last
    inputs,                 \* host events so far
    offsetAge,              \* impulse: frames since the last press on a particle
    offsetAtPress,          \* impulse: a particle's offset after its last press
    removedAge,             \* impulse: the frame (since the press) that deleted an offset
    lastPress,              \* impulse: hit index and draws of the last mousedown
    waveTimeAtStart,        \* wave: waveTime when the last start event arrived
    frameLimit              \* the requestAnimationFrame calls the behaviour is followed for

effectVars == <<mounted, effectGen, listeners, sceneRef>>
loopVars == <<rafQueue, animationIdRef, rafSeq>>
loadVars == <<loads, sceneChildren, cameraZ, everLoaded>>
viewVars == <<viewport, cameraAspect, rendererSize>>
uiVars == <<isLoading, loadingError>>
mobileVars == <<userAgentMobile, isMobile, isMobileQueued, mobileCause>>
modelVars == <<pointsRef, brainMeshRef, originalPositionsRef, pointsPosition>>
particleVars == <<positions, particlePhysics, targetOffsets>>
interactionVars ==
    <<isInteracting, mousePosition, previousMousePosition, mouseVelocity,
      interactionPoint, waveTime>>
historyVars == <<offsetAge, offsetAtPress, removedAge, lastPress, waveTimeAtStart>>

vars ==
    <<variant, frameLimit, effectVars, loopVars, loadVars, viewVars, uiVars, mobileVars,
      modelVars, particleVars, interactionVars, historyVars, rotationY, frameLog,
      clock, lastOp, inputs>>

\* ------------------------------------------------------------------------
\* Geometry set up by the loaders
\* ------------------------------------------------------------------------

RECURSIVE MinOf(_, _, _)
MinOf(vs, c, n) ==
    IF n = 1 THEN vs[1][c]
    ELSE LET m == MinOf(vs, c, n - 1) IN IF vs[n][c] < m THEN vs[n][c] ELSE m

RECURSIVE MaxOf(_, _, _)
MaxOf(vs, c, n) ==
    IF n = 1 THEN vs[1][c]
    ELSE LET m == MaxOf(vs, c, n - 1) IN IF vs[n][c] > m THEN vs[n][c] ELSE m

\* box.getCenter of geometry.computeBoundingBox
BoxCenter(vs) ==
    [c \in 1..3 |-> (MinOf(vs, c, Len(vs)) + MaxOf(vs, c, Len(vs))) \div 2]

\* Math.max(size.x, size.y, size.z) of box.getSize
BoxMaxDim(vs) ==
    LET size == [c \in 1..3 |-> MaxOf(vs, c, Len(vs)) - MinOf(vs, c, Len(vs))]
    IN IF size[1] >= size[2] /\ size[1] >= size[3] THEN size[1]
       ELSE IF size[2] >= size[3] THEN size[2] ELSE size[3]

\* cameraZ = |maxDim / 2 / tan(fov / 2)| * 1.8 with fov = 75 degrees
\* (tan(37.5 degrees) = 0.7673)
CameraDistance(vs) == Mul(Rnd(BoxMaxDim(vs) * SCALE, 2 * 7673), 18000)

\* ------------------------------------------------------------------------
\* Impulse with decay (src/unnamed/part_001)
\* ------------------------------------------------------------------------

\* a direction that points from the vertex to the hit vertex
PressDirectionReversed(i, hitIndex, rnd) ==
    LET difference == VSub(originalPositionsRef[hitIndex], originalPositionsRef[i])
    IN Normalize(IF LengthSq(difference) = 0 THEN rnd ELSE difference)

\* onMouseDown, the direction of the push on vertex i of a press at vertex
\* hitIndex: subVectors, the random fallback when its lengthSq is 0, then
\* normalize; rnd are the three Math.random() - 0.5 draws of the fallback
PressDirection(i, hitIndex, rnd) ==
    LET difference == VSub(originalPositionsRef[i], originalPositionsRef[hitIndex])
    IN Normalize(IF LengthSq(difference) = 0 THEN rnd ELSE difference)

\* onMouseDown, the strength of that push:
\* PUSH_STRENGTH * (1 - sqrt(distSq) / sqrt(INTERACTION_RADIUS_SQ))
PressStrength(i, hitIndex) ==
    LET distSq == DistanceToSquared(originalPositionsRef[i], originalPositionsRef[hitIndex])
    IN Mul(PUSH_STRENGTH,
           SCALE - Rnd(ISqrt(distSq) * SCALE, ISqrt(INTERACTION_RADIUS_SQ * SCALE)))

\* onMouseDown, the body of the loop over the vertices: the offset one press
\* at vertex hitIndex adds to vertex i
PressOffset(i, hitIndex, rnd) ==
    MultiplyScalar(PressDirection(i, hitIndex, rnd), PressStrength(i, hitIndex))

\* the vertices one press at hitIndex reaches: distSq < INTERACTION_RADIUS_SQ
Reached(hitIndex) ==
    {i \in 1..Len(originalPositionsRef) :
        DistanceToSquared(originalPositionsRef[i], originalPositionsRef[hitIndex])
            < INTERACTION_RADIUS_SQ * SCALE}

\* targetOffsetsRef.current after the press: existingOffset.add(offset)
PressedOffsets(hitIndex, rnd) ==
    [i \in (DOMAIN targetOffsets) \cup Reached(hitIndex) |->
        IF i \in Reached(hitIndex)
        THEN VAdd(IF i \in DOMAIN targetOffsets THEN targetOffsets[i] ELSE ZeroVec,
                  PressOffset(i, hitIndex, rnd))
        ELSE targetOffsets[i]]

\* a pass that eases to the target and leaves the offset as it is
ImpulseParticleWithoutDecay(i, acc) ==
    LET currentVec == acc.positions[i]
        originalVec == originalPositionsRef[i]
        targetPos == IF i \in DOMAIN acc.offsets
                     THEN VAdd(originalVec, acc.offsets[i])
                     ELSE originalVec
        eased == Lerp(currentVec, targetPos, LERP_FACTOR)
    IN [positions |-> [acc.positions EXCEPT ![i] = eased],
        offsets |-> acc.offsets,
        needsUpdate |->
            \/ acc.needsUpdate
            \/ i \in DOMAIN acc.offsets
            \/ DistanceToSquared(eased, originalVec) > OFFSET_EPSILON_SQ,
        log |-> Append(acc.log, <<"write", i>>)]

\* a pass that tests the length of the offset before it multiplies it
ImpulseParticleTestsFirst(i, acc) ==
    LET currentVec == acc.positions[i]
        originalVec == originalPositionsRef[i]
    IN IF i \in DOMAIN acc.offsets
       THEN LET offset == acc.offsets[i]
                targetPos == VAdd(originalVec, offset)
            IN [positions |-> [acc.positions EXCEPT ![i] = Lerp(currentVec, targetPos, LERP_FACTOR)],
                offsets |->
                    IF LengthSq(offset) < OFFSET_EPSILON_SQ
                    THEN [j \in (DOMAIN acc.offsets) \ {i} |-> acc.offsets[j]]
                    ELSE [acc.offsets EXCEPT ![i] = MultiplyScalar(offset, DECAY_FACTOR)],
                needsUpdate |-> TRUE,
                log |-> Append(acc.log, <<"write", i>>)]
       ELSE LET eased == Lerp(currentVec, originalVec, LERP_FACTOR)
            IN [positions |-> [acc.positions EXCEPT ![i] = eased],
                offsets |-> acc.offsets,
                needsUpdate |->
                    acc.needsUpdate \/ DistanceToSquared(eased, originalVec) > OFFSET_EPSILON_SQ,
                log |-> Append(acc.log, <<"write", i>>)]

\* animate, one pass of the loop over the vertices; acc carries the position
\* attribute, the offsets, needsUpdate and the order of the writes
ImpulseParticle(i, acc) ==
    LET currentVec == acc.positions[i]
        originalVec == originalPositionsRef[i]
    IN IF i \in DOMAIN acc.offsets
       THEN LET offset == acc.offsets[i]
                targetPos == VAdd(originalVec, offset)
                decayed == MultiplyScalar(offset, DECAY_FACTOR)
            IN [positions |-> [acc.positions EXCEPT ![i] = Lerp(currentVec, targetPos, LERP_FACTOR)],
                offsets |->
                    IF LengthSq(decayed) < OFFSET_EPSILON_SQ
                    THEN [j \in (DOMAIN acc.offsets) \ {i} |-> acc.offsets[j]]
                    ELSE [acc.offsets EXCEPT ![i] = decayed],
                needsUpdate |-> TRUE,
                log |-> Append(acc.log, <<"write", i>>)]
       ELSE LET eased == Lerp(currentVec, originalVec, LERP_FACTOR)
            IN [positions |-> [acc.positions EXCEPT ![i] = eased],
                offsets |-> acc.offsets,
                needsUpdate |->
                    acc.needsUpdate \/ DistanceToSquared(eased, originalVec) > OFFSET_EPSILON_SQ,
                log |-> Append(acc.log, <<"write", i>>)]

RECURSIVE ImpulseLoop(_, _)
ImpulseLoop(i, acc) ==
    IF i > Len(acc.positions) THEN acc ELSE ImpulseLoop(i + 1, ImpulseParticle(i, acc))

\* animate up to renderer.render: the guard, the loop, the dirty flag
ImpulseUpdate ==
    IF brainMeshRef # 0 /\ originalPositionsRef # <<>>
    THEN LET done == ImpulseLoop(1, [positions |-> positions, offsets |-> targetOffsets,
                                     needsUpdate |-> FALSE, log |-> <<>>])
         IN [done EXCEPT !.log = IF done.needsUpdate THEN Append(@, <<"dirty", 0>>) ELSE @]
    ELSE [positions |-> positions, offsets |-> targetOffsets,
          needsUpdate |-> FALSE, log |-> <<>>]

\* the whole body of animate, run by the closure of effect run gen
ImpulseAnimate(gen) ==
    LET done == ImpulseUpdate
    IN /\ clock' = clock + FrameInterval
       /\ rotationY' = IF sceneChildren[gen] # {} THEN rotationY + 1 ELSE rotationY
       /\ positions' = done.positions
       /\ targetOffsets' = done.offsets
       /\ frameLog' = Append(done.log, <<"render", gen>>)
       /\ offsetAge' = [i \in DOMAIN done.offsets |-> offsetAge[i] + 1]
       /\ removedAge' =
              [i \in (DOMAIN removedAge) \cup ((DOMAIN targetOffsets) \ (DOMAIN done.offsets)) |->
                  IF i \in DOMAIN targetOffsets THEN offsetAge[i] + 1 ELSE removedAge[i]]
       /\ UNCHANGED <<particlePhysics, waveTime, offsetAtPress, lastPress, waveTimeAtStart>>

\* ------------------------------------------------------------------------
\* Continuous wave field (src/src/App.tsx)
\* ------------------------------------------------------------------------

\* the draws of the load started by effect run gen, the same for every
\* particle: wavePhase (Math.random() * Math.PI * 2) and turbulence
\* ((Math.random() - 0.5) * 0.1)
PhysicsDraws(gen) ==
    IF gen % 2 = 1 THEN {<<0, <<0, 0, 0>>>>} ELSE {<<PI, <<400, -500, 300>>>>}

\* clientX, clientY of the start events and of the move events, in pixels
StartPoints == {<<100, 50>>}

MovePoints == {<<110, 45>>}

\* points.position after loadVertices: minus the centre of the bounding box,
\* with y set to 0.3 when the load was started by a mobile render
PointsPositionFor(vs, mobile) ==
    LET centred == VSub(ZeroVec, BoxCenter(vs))
    IN IF mobile THEN <<centred[1], 3000, centred[3]>> ELSE centred

\* points.worldToLocal for a model at position pos turned rot steps about y:
\* the inverse of the translation, then of the rotation
WorldToLocal(p, pos, rot) ==
    LET d == VSub(p, pos)
        c == Cos(rot * 30)
        sn == Sin(rot * 30)
    IN <<Mul(d[1], c) - Mul(d[3], sn), d[2], Mul(d[1], sn) + Mul(d[3], c)>>

\* the world points getWorldPosition can return: vertex 1 of a model loaded
\* by a desktop render, and the origin of the fallback plane
WorldPoints == {VAdd(Vertices[1], PointsPositionFor(Vertices, FALSE)), ZeroVec}

\* getWorldPosition: null without a model, else the point under the pointer
GetWorldPosition == IF pointsRef = 0 THEN {<<>>} ELSE {<<w>> : w \in WorldPoints}

\* animate, the interaction force on one particle (the body of
\* if (distance < INTERACTION_RADIUS)), already scaled by 0.1
InteractionForce(physics, localInteractionPoint, time, rnd) ==
    LET distance == DistanceTo(physics.originalPosition, localInteractionPoint)
        difference == VSub(physics.originalPosition, localInteractionPoint)
        direction == Normalize(IF LengthSq(difference) > 0 THEN difference ELSE rnd)
        waveOffset == Rnd(Sin(time - Mul(distance, WAVE_SPEED)), 2) + SCALE \div 2
        distanceFactor == SCALE - Rnd(distance * SCALE, INTERACTION_RADIUS)
        swirl == <<-Mul(mouseVelocity[2], SWIRL_STRENGTH), Mul(mouseVelocity[1], SWIRL_STRENGTH), 0>>
        force ==
            VAdd(VAdd(MultiplyScalar(direction, Mul(Mul(WAVE_STRENGTH, distanceFactor), waveOffset)),
                      MultiplyScalar(swirl, distanceFactor)),
                 MultiplyScalar(physics.turbulence, Mul(TURBULENCE, waveOffset)))
    IN MultiplyScalar(force, SCALE \div 10)

\* a test that uses the stored interaction point whether or not the
\* interaction is active
PushedByStoredPoint(physics, rot) ==
    /\ interactionPoint # <<>>
    /\ DistanceTo(physics.originalPosition,
                  WorldToLocal(interactionPoint[1], pointsPosition, rot)) < INTERACTION_RADIUS

\* whether animate adds an interaction force to the particle
Pushed(physics, rot) ==
    /\ interactionPoint # <<>>
    /\ isInteracting
    /\ DistanceTo(physics.originalPosition,
                  WorldToLocal(interactionPoint[1], pointsPosition, rot)) < INTERACTION_RADIUS

\* a return force that points away from the original position
ReturnForceReversed(physics, currentPos) == VSub(currentPos, physics.originalPosition)

\* animate, the return force before its scaling by MAGNETIC_FORCE
ReturnForce(physics, currentPos) == VSub(physics.originalPosition, currentPos)

\* a velocity update that adds the whole return force, not MAGNETIC_FORCE of it
DampedFullSpring(pushed, returnForce) ==
    MultiplyScalar(VAdd(pushed, returnForce), FRICTION)

\* animate, the velocity after the return force and the friction
Damped(pushed, returnForce) ==
    MultiplyScalar(VAdd(pushed, MultiplyScalar(returnForce, MAGNETIC_FORCE)), FRICTION)

\* animate, breathingOffset: Math.sin(Date.now() * 0.001 + wavePhase) * 0.01
BreathingOffset(now, physics) == Mul(Sin(now + physics.wavePhase), SCALE \div 100)

\* animate, one pass of the loop over the particles
WaveParticle(i, acc, time, rot, now, rnd) ==
    IF i \notin DOMAIN acc.physics THEN acc
    ELSE LET physics == acc.physics[i]
             currentPos == acc.positions[i]
             pushed ==
                 IF Pushed(physics, rot)
                 THEN VAdd(physics.velocity,
                           InteractionForce(physics,
                               WorldToLocal(interactionPoint[1], pointsPosition, rot), time, rnd))
                 ELSE physics.velocity
             returnForce == ReturnForce(physics, currentPos)
             velocity == Damped(pushed, returnForce)
             newPos == VAdd(currentPos, velocity)
             breathingOffset == BreathingOffset(now, physics)
             breathingPos ==
                 VAdd(newPos, MultiplyScalar(Normalize(physics.originalPosition), breathingOffset))
         IN [positions |-> [acc.positions EXCEPT ![i] = breathingPos],
             physics |-> [acc.physics EXCEPT ![i].velocity = velocity],
             needsUpdate |-> TRUE,
             log |-> Append(acc.log, <<"write", i>>)]

RECURSIVE WaveLoop(_, _, _, _, _, _)
WaveLoop(i, acc, time, rot, now, rnd) ==
    IF i > Len(acc.positions) THEN acc
    ELSE WaveLoop(i + 1, WaveParticle(i, acc, time, rot, now, rnd), time, rot, now, rnd)

\* the guard of animate's update: if (points && originalPositionsRef.current)
WaveGuard == pointsRef # 0 /\ originalPositionsRef # <<>>

\* a clock that advances in every frame of a loaded model, active or not
WaveClockAlways == IF WaveGuard THEN waveTime + SCALE \div 10 ELSE waveTime

\* a clock that advances outside the guard, before any model has loaded
WaveClockUnguarded == IF isInteracting THEN waveTime + SCALE \div 10 ELSE waveTime

\* waveTimeRef.current after animate's "if (isInteractingRef.current)"
WaveClock == IF WaveGuard /\ isInteracting THEN waveTime + SCALE \div 10 ELSE waveTime

\* an update that sets needsUpdate on the attribute before the loop
WaveUpdateFlagFirst(now, rnd) ==
    IF WaveGuard
    THEN WaveLoop(1, [positions |-> positions, physics |-> particlePhysics,
                      needsUpdate |-> TRUE, log |-> <<<<"dirty", 0>>>>],
                  WaveClock, rotationY + 1, now, rnd)
    ELSE [positions |-> positions, physics |-> particlePhysics,
          needsUpdate |-> FALSE, log |-> <<>>]

\* animate up to renderer.render
WaveUpdate(now, rnd) ==
    IF WaveGuard
    THEN LET done == WaveLoop(1, [positions |-> positions, physics |-> particlePhysics,
                                  needsUpdate |-> FALSE, log |-> <<>>],
                              WaveClock, rotationY + 1, now, rnd)
         IN [done EXCEPT !.log = IF done.needsUpdate THEN Append(@, <<"dirty", 0>>) ELSE @]
    ELSE [positions |-> positions, physics |-> particlePhysics,
          needsUpdate |-> FALSE, log |-> <<>>]

\* the whole body of animate, run by the closure of effect run gen
WaveAnimate(gen, rnd) ==
    LET done == WaveUpdate(clock + FrameInterval, rnd)
    IN /\ clock' = clock + FrameInterval
       /\ rotationY' = IF pointsRef # 0 THEN rotationY + 1 ELSE rotationY
       /\ waveTime' = WaveClock
       /\ positions' = done.positions
       /\ particlePhysics' = done.physics
       /\ frameLog' = Append(done.log, <<"render", gen>>)
       /\ UNCHANGED <<targetOffsets, historyVars>>

\* ------------------------------------------------------------------------
\* The effect: setup, cleanup, the animation loop
\* ------------------------------------------------------------------------

Variants == {"wave", "impulse"}

\* the browsers the component is mounted in: whether the user agent matches
\* mobileRegex, and the first size of the viewport
Environments ==
    {<<FALSE, <<1024, 768>>>>, <<FALSE, <<768, 1024>>>>, <<TRUE, <<1024, 768>>>>}

\* checkIsMobile's argument to setIsMobile
CheckIsMobile(vp) == userAgentMobile \/ vp[1] <= 768

\* a cleanup without cancelAnimationFrame
CleanupQueueKeepsFrame == rafQueue

\* the cleanup's "if (animationIdRef.current) cancelAnimationFrame(...)"
CleanupQueue ==
    IF animationIdRef # 0 THEN {cb \in rafQueue : cb.id # animationIdRef} ELSE rafQueue

\* the cleanup's removeEventListener calls
CleanupListeners == listeners \ {effectGen}

Init ==
    /\ variant \in Variants
    /\ mounted = TRUE
    /\ effectGen = 1
    /\ listeners = {1}
    /\ sceneRef = 1
    /\ rafQueue = {[id |-> 1, gen |-> 1]}
    /\ animationIdRef = 1
    /\ rafSeq = 1
    /\ loads = {[gen |-> 1, mobile |-> FALSE, cause |-> "mount"]}
    /\ sceneChildren = [g \in {1} |-> {}]
    /\ cameraZ = 5 * SCALE
    /\ everLoaded = FALSE
    /\ \E env \in Environments :
           /\ userAgentMobile = (variant = "wave" /\ env[1])
           /\ viewport = env[2]
    /\ cameraAspect = viewport
    /\ rendererSize = viewport
    /\ isLoading = TRUE
    /\ loadingError = FALSE
    /\ isMobile = FALSE
    /\ isMobileQueued = (variant = "wave" /\ CheckIsMobile(viewport))
    /\ mobileCause = IF isMobileQueued THEN "mount" ELSE "none"
    /\ pointsRef = 0
    /\ brainMeshRef = 0
    /\ originalPositionsRef = <<>>
    /\ pointsPosition = ZeroVec
    /\ rotationY = 0
    /\ positions = <<>>
    /\ particlePhysics = <<>>
    /\ targetOffsets = <<>>
    /\ isInteracting = FALSE
    /\ mousePosition = <<0, 0>>
    /\ previousMousePosition = <<0, 0>>
    /\ mouseVelocity = <<0, 0>>
    /\ interactionPoint = <<>>
    /\ waveTime = 0
    /\ frameLog = <<<<"render", 1>>>>
    /\ clock \in (IF variant = "wave" THEN NowAngles ELSE {0})
    /\ lastOp = "init"
    /\ inputs = 0
    /\ offsetAge = <<>>
    /\ offsetAtPress = <<>>
    /\ removedAge = <<>>
    /\ lastPress = [hitIndex |-> 0, rnd |-> ZeroVec]
    /\ waveTimeAtStart = 0
    /\ frameLimit = MaxFrames

\* one requestAnimationFrame callback: animate of the closure that asked for it
Frame(cb, rnd) ==
    /\ cb \in rafQueue
    /\ rafSeq < frameLimit
    /\ rafSeq' = rafSeq + 1
    /\ animationIdRef' = rafSeq + 1
    /\ rafQueue' = (rafQueue \ {cb}) \cup {[id |-> rafSeq + 1, gen |-> cb.gen]}
    /\ IF variant = "wave" THEN WaveAnimate(cb.gen, rnd) ELSE ImpulseAnimate(cb.gen)
    /\ lastOp' = "frame"
    /\ UNCHANGED <<variant, frameLimit, effectVars, loadVars, viewVars, uiVars, mobileVars, modelVars,
                   isInteracting, mousePosition, previousMousePosition, mouseVelocity,
                   interactionPoint, inputs>>

\* the final cleanup of the effect (the component unmounts)
Unmount ==
    /\ mounted
    /\ inputs < MaxInputs
    /\ inputs' = inputs + 1
    /\ mounted' = FALSE
    /\ rafQueue' = CleanupQueue
    /\ listeners' = CleanupListeners
    /\ lastOp' = "unmount"
    /\ UNCHANGED <<variant, frameLimit, effectGen, sceneRef, animationIdRef, rafSeq, loadVars, viewVars,
                   uiVars, mobileVars, modelVars, particleVars, interactionVars,
                   historyVars, rotationY, frameLog, clock>>

\* handleResize (and, in the wave variant, the checkIsMobile listener beside it)
HandleResize(vp) ==
    /\ listeners # {}
    /\ inputs < MaxInputs
    /\ inputs' = inputs + 1
    /\ vp # viewport
    /\ viewport' = vp
    /\ cameraAspect' = vp
    /\ rendererSize' = vp
    /\ IF variant = "wave"
       THEN /\ isMobileQueued' = CheckIsMobile(vp)
            /\ mobileCause' = IF CheckIsMobile(vp) # isMobileQueued THEN "resize" ELSE mobileCause
            /\ UNCHANGED <<userAgentMobile, isMobile>>
       ELSE UNCHANGED mobileVars
    /\ lastOp' = "resize"
    /\ UNCHANGED <<variant, frameLimit, effectVars, loopVars, loadVars, uiVars, modelVars, particleVars,
                   interactionVars, historyVars, rotationY, frameLog, clock>>

\* ------------------------------------------------------------------------
\* The loaders
\* ------------------------------------------------------------------------

\* loadVertices resumes after its last await and runs to its end
LoadVerticesDone(ld, draw) ==
    /\ variant = "wave"
    /\ ld \in loads
    /\ loads' = loads \ {ld}
    /\ originalPositionsRef' = Vertices
    /\ particlePhysics' =
           [i \in 1..Len(Vertices) |->
               [velocity |-> ZeroVec, originalPosition |-> Vertices[i], offset |-> ZeroVec,
                wavePhase |-> draw[1], turbulence |-> draw[2]]]
    /\ pointsRef' = ld.gen
    /\ positions' = Vertices
    /\ rotationY' = 0
    /\ pointsPosition' = PointsPositionFor(Vertices, ld.mobile)
    /\ sceneChildren' = [sceneChildren EXCEPT ![sceneRef] = @ \cup {ld.gen}]
    /\ cameraZ' = CameraDistance(Vertices)
    /\ everLoaded' = TRUE
    /\ isLoading' = (IF mounted THEN FALSE ELSE isLoading)
    /\ lastOp' = "load"
    /\ UNCHANGED <<variant, frameLimit, effectVars, loopVars, viewVars, loadingError, mobileVars,
                   brainMeshRef, targetOffsets, interactionVars, historyVars, frameLog, clock, inputs>>

\* a load that throws after it has assigned the refs animate reads
LoadFailedAfterPublish(ld) ==
    /\ ld \in loads
    /\ loads' = loads \ {ld}
    /\ isLoading' = (IF mounted THEN FALSE ELSE isLoading)
    /\ loadingError' = (IF mounted THEN TRUE ELSE loadingError)
    /\ originalPositionsRef' = Vertices
    /\ positions' = Vertices
    /\ pointsRef' = (IF variant = "wave" THEN ld.gen ELSE pointsRef)
    /\ brainMeshRef' = (IF variant = "impulse" THEN ld.gen ELSE brainMeshRef)
    /\ particlePhysics' =
           IF variant = "wave"
           THEN [i \in 1..Len(Vertices) |->
                    [velocity |-> ZeroVec, originalPosition |-> Vertices[i], offset |-> ZeroVec,
                     wavePhase |-> 0, turbulence |-> ZeroVec]]
           ELSE particlePhysics
    /\ lastOp' = "loadfail"
    /\ UNCHANGED <<variant, frameLimit, effectVars, loopVars, sceneChildren, cameraZ, everLoaded, viewVars,
                   mobileVars, pointsPosition, targetOffsets, interactionVars, historyVars,
                   rotationY, frameLog, clock, inputs>>

\* loadVertices or loadModel throws (fetch, HTTP status, parse, no mesh in the
\* file): the catch block records the error, no ref has been assigned
LoadFailed(ld) ==
    /\ ld \in loads
    /\ loads' = loads \ {ld}
    /\ isLoading' = (IF mounted THEN FALSE ELSE isLoading)
    /\ loadingError' = (IF mounted THEN TRUE ELSE loadingError)
    /\ lastOp' = "loadfail"
    /\ UNCHANGED <<variant, frameLimit, effectVars, loopVars, sceneChildren, cameraZ, everLoaded, viewVars,
                   mobileVars, modelVars, particleVars, interactionVars, historyVars,
                   rotationY, frameLog, clock, inputs>>

\* loadModel resumes after the GLTFLoader promise and runs to its end
LoadModelDone(ld) ==
    /\ variant = "impulse"
    /\ ld \in loads
    /\ loads' = loads \ {ld}
    /\ brainMeshRef' = (IF brainMeshRef = 0 THEN ld.gen ELSE brainMeshRef)
    /\ originalPositionsRef' = (IF brainMeshRef = 0 THEN Vertices ELSE originalPositionsRef)
    /\ positions' = (IF brainMeshRef = 0 THEN Vertices ELSE positions)
    /\ sceneChildren' = [sceneChildren EXCEPT ![sceneRef] = @ \cup {ld.gen}]
    /\ cameraZ' = CameraDistance(Vertices)
    /\ everLoaded' = TRUE
    /\ isLoading' = (IF mounted THEN FALSE ELSE isLoading)
    /\ lastOp' = "load"
    /\ UNCHANGED <<variant, frameLimit, effectVars, loopVars, viewVars, loadingError, mobileVars,
                   pointsRef, pointsPosition, particlePhysics, targetOffsets,
                   interactionVars, historyVars, rotationY, frameLog, clock, inputs>>

\* ------------------------------------------------------------------------
\* Pointer and touch handlers
\* ------------------------------------------------------------------------

\* handleInteractionStart (mousedown, touchstart)
HandleInteractionStart(client, worldPos) ==
    /\ variant = "wave"
    /\ listeners # {}
    /\ inputs < MaxInputs
    /\ worldPos \in GetWorldPosition
    /\ isInteracting' = TRUE
    /\ mousePosition' = client
    /\ previousMousePosition' = client
    /\ interactionPoint' = (IF worldPos # <<>> THEN worldPos ELSE interactionPoint)
    /\ waveTime' = (IF worldPos # <<>> THEN 0 ELSE waveTime)
    /\ waveTimeAtStart' = waveTime
    /\ UNCHANGED <<offsetAge, offsetAtPress, removedAge, lastPress>>
    /\ lastOp' = "start"
    /\ inputs' = inputs + 1
    /\ UNCHANGED <<variant, frameLimit, effectVars, loopVars, loadVars, viewVars, uiVars, mobileVars,
                   modelVars, particleVars, mouseVelocity, rotationY, frameLog, clock>>

\* handleInteractionMove (mousemove, touchmove)
HandleInteractionMove(client, worldPos) ==
    /\ variant = "wave"
    /\ listeners # {}
    /\ inputs < MaxInputs
    /\ worldPos \in GetWorldPosition
    /\ IF ~isInteracting
       THEN UNCHANGED <<mouseVelocity, previousMousePosition, mousePosition, interactionPoint>>
       ELSE /\ mouseVelocity' =
                   <<(client[1] - previousMousePosition[1]) * (SCALE \div 10),
                     -(client[2] - previousMousePosition[2]) * (SCALE \div 10)>>
            /\ previousMousePosition' = client
            /\ mousePosition' = client
            /\ interactionPoint' = (IF worldPos # <<>> THEN worldPos ELSE interactionPoint)
    /\ lastOp' = "move"
    /\ inputs' = inputs + 1
    /\ UNCHANGED <<variant, frameLimit, effectVars, loopVars, loadVars, viewVars, uiVars, mobileVars,
                   modelVars, particleVars, isInteracting, waveTime, historyVars, rotationY,
                   frameLog, clock>>

\* a handleInteractionEnd that also sets interactionPointRef.current to null
HandleInteractionEndClearsPoint ==
    /\ variant = "wave"
    /\ listeners # {}
    /\ inputs < MaxInputs
    /\ isInteracting' = FALSE
    /\ mouseVelocity' = <<0, 0>>
    /\ interactionPoint' = <<>>
    /\ lastOp' = "end"
    /\ inputs' = inputs + 1
    /\ UNCHANGED <<variant, frameLimit, effectVars, loopVars, loadVars, viewVars, uiVars, mobileVars,
                   modelVars, particleVars, mousePosition, previousMousePosition,
                   waveTime, historyVars, rotationY, frameLog, clock>>

\* handleInteractionEnd (mouseup, mouseleave, touchend)
HandleInteractionEnd ==
    /\ variant = "wave"
    /\ listeners # {}
    /\ inputs < MaxInputs
    /\ isInteracting' = FALSE
    /\ mouseVelocity' = <<0, 0>>
    /\ lastOp' = "end"
    /\ inputs' = inputs + 1
    /\ UNCHANGED <<variant, frameLimit, effectVars, loopVars, loadVars, viewVars, uiVars, mobileVars,
                   modelVars, particleVars, mousePosition, previousMousePosition,
                   interactionPoint, waveTime, historyVars, rotationY, frameLog, clock>>

\* an onMouseDown that also moves the pressed vertices in the position
\* attribute, instead of leaving the move to animate
OnMouseDownMovesParticles(hitIndex, rnd) ==
    /\ variant = "impulse"
    /\ listeners # {}
    /\ inputs < MaxInputs
    /\ IF brainMeshRef = 0 \/ originalPositionsRef = <<>> \/ hitIndex = 0
       THEN /\ UNCHANGED <<targetOffsets, positions, offsetAge, offsetAtPress, removedAge>>
            /\ lastPress' = [hitIndex |-> 0, rnd |-> ZeroVec]
       ELSE LET pressed == PressedOffsets(hitIndex, rnd)
                reached == Reached(hitIndex)
            IN /\ targetOffsets' = pressed
               /\ positions' =
                      [i \in DOMAIN positions |->
                          IF i \in reached THEN VAdd(positions[i], PressOffset(i, hitIndex, rnd))
                          ELSE positions[i]]
               /\ offsetAtPress' =
                      [i \in (DOMAIN offsetAtPress) \cup reached |->
                          IF i \in reached THEN pressed[i] ELSE offsetAtPress[i]]
               /\ offsetAge' = [i \in DOMAIN pressed |-> IF i \in reached THEN 0 ELSE offsetAge[i]]
               /\ removedAge' = [i \in (DOMAIN removedAge) \ reached |-> removedAge[i]]
               /\ lastPress' = [hitIndex |-> hitIndex, rnd |-> rnd]
    /\ UNCHANGED waveTimeAtStart
    /\ lastOp' = "mousedown"
    /\ inputs' = inputs + 1
    /\ UNCHANGED <<variant, frameLimit, effectVars, loopVars, loadVars, viewVars, uiVars, mobileVars,
                   modelVars, particlePhysics, interactionVars, rotationY, frameLog, clock>>

\* onMouseDown of the impulse variant; hitIndex 0 is a ray that meets no face
OnMouseDown(hitIndex, rnd) ==
    /\ variant = "impulse"
    /\ listeners # {}
    /\ inputs < MaxInputs
    /\ IF brainMeshRef = 0 \/ originalPositionsRef = <<>> \/ hitIndex = 0
       THEN /\ UNCHANGED <<targetOffsets, offsetAge, offsetAtPress, removedAge>>
            /\ lastPress' = [hitIndex |-> 0, rnd |-> ZeroVec]
       ELSE LET pressed == PressedOffsets(hitIndex, rnd)
                reached == Reached(hitIndex)
            IN /\ targetOffsets' = pressed
               /\ offsetAtPress' =
                      [i \in (DOMAIN offsetAtPress) \cup reached |->
                          IF i \in reached THEN pressed[i] ELSE offsetAtPress[i]]
               /\ offsetAge' = [i \in DOMAIN pressed |-> IF i \in reached THEN 0 ELSE offsetAge[i]]
               /\ removedAge' = [i \in (DOMAIN removedAge) \ reached |-> removedAge[i]]
               /\ lastPress' = [hitIndex |-> hitIndex, rnd |-> rnd]
    /\ UNCHANGED waveTimeAtStart
    /\ lastOp' = "mousedown"
    /\ inputs' = inputs + 1
    /\ UNCHANGED <<variant, frameLimit, effectVars, loopVars, loadVars, viewVars, uiVars, mobileVars,
                   modelVars, positions, particlePhysics, interactionVars, rotationY, frameLog, clock>>

\* ------------------------------------------------------------------------
\* React commits a render with a new isMobile: the effect's cleanup, then the
\* effect again (dependency [isMobile]), with its loadVertices() and animate()
\* ------------------------------------------------------------------------

Rerender(rnd) ==
    /\ variant = "wave"
    /\ mounted
    /\ isMobileQueued # isMobile
    /\ effectGen < MaxEffects
    /\ rafSeq < frameLimit
    /\ isMobile' = isMobileQueued
    /\ effectGen' = effectGen + 1
    /\ listeners' = CleanupListeners \cup {effectGen + 1}
    /\ sceneRef' = effectGen + 1
    /\ sceneChildren' = [g \in 1..(effectGen + 1) |-> IF g <= effectGen THEN sceneChildren[g] ELSE {}]
    /\ cameraZ' = 5 * SCALE
    /\ cameraAspect' = viewport
    /\ rendererSize' = viewport
    /\ loads' = loads \cup {[gen |-> effectGen + 1, mobile |-> isMobileQueued, cause |-> mobileCause]}
    /\ isLoading' = TRUE
    /\ loadingError' = FALSE
    /\ rafSeq' = rafSeq + 1
    /\ animationIdRef' = rafSeq + 1
    /\ rafQueue' = CleanupQueue \cup {[id |-> rafSeq + 1, gen |-> effectGen + 1]}
    /\ WaveAnimate(effectGen + 1, rnd)
    /\ lastOp' = "rerender"
    /\ UNCHANGED <<variant, frameLimit, mounted, everLoaded, viewport, userAgentMobile, isMobileQueued,
                   mobileCause, modelVars, isInteracting, mousePosition,
                   previousMousePosition, mouseVelocity, interactionPoint, inputs>>

\* the draws that can change the outcome of animate in the current state
FrameRandom ==
    IF /\ variant = "wave"
       /\ WaveGuard
       /\ \E i \in DOMAIN particlePhysics :
              /\ Pushed(particlePhysics[i], rotationY + 1)
              /\ particlePhysics[i].originalPosition
                     = WorldToLocal(interactionPoint[1], pointsPosition, rotationY + 1)
    THEN RandomTriples ELSE {ZeroVec}

FrameStep == \E cb \in rafQueue, rnd \in FrameRandom : Frame(cb, rnd)

RerenderStep == \E rnd \in FrameRandom : Rerender(rnd)

ResizeStep == \E vp \in Viewports : HandleResize(vp)

LoadVerticesStep == \E ld \in loads : \E draw \in PhysicsDraws(ld.gen) : LoadVerticesDone(ld, draw)

LoadModelStep == \E ld \in loads : LoadModelDone(ld)

LoadFailedStep == \E ld \in loads : LoadFailed(ld)

StartStep == \E c \in StartPoints, w \in GetWorldPosition : HandleInteractionStart(c, w)

MoveStep == \E c \in MovePoints, w \in GetWorldPosition : HandleInteractionMove(c, w)

MouseDownStep ==
    \E h \in 0..Len(originalPositionsRef), rnd \in RandomTriples : OnMouseDown(h, rnd)

Next ==
    \/ FrameStep
    \/ RerenderStep
    \/ ResizeStep
    \/ LoadVerticesStep
    \/ LoadModelStep
    \/ LoadFailedStep
    \/ StartStep
    \/ MoveStep
    \/ HandleInteractionEnd
    \/ MouseDownStep
    \/ Unmount

Spec == Init /\ [][Next]_vars

\* the wave variant alone
InitWave == variant = "wave" /\ Init

NextWave ==
    \/ FrameStep
    \/ RerenderStep
    \/ ResizeStep
    \/ LoadVerticesStep
    \/ LoadFailedStep
    \/ StartStep
    \/ MoveStep
    \/ HandleInteractionEnd
    \/ Unmount

SpecWave == InitWave /\ [][NextWave]_vars

\* the impulse variant alone
InitImpulse == variant = "impulse" /\ Init

NextImpulse ==
    \/ FrameStep
    \/ ResizeStep
    \/ LoadModelStep
    \/ LoadFailedStep
    \/ MouseDownStep
    \/ Unmount

SpecImpulse == InitImpulse /\ [][NextImpulse]_vars


\* ------------------------------------------------------------------------
\* Behaviours without host events: the component has mounted in a desktop
\* browser, its load has completed, and from then on only frames run
\* ------------------------------------------------------------------------

\* the state after the first effect run and the successful end of its load,
\* before the next frame, in a behaviour that is followed for limit frames
LoadedAtRest(limit) ==
    /\ variant \in Variants
    /\ frameLimit = limit
    /\ mounted = TRUE
    /\ effectGen = 1
    /\ listeners = {1}
    /\ sceneRef = 1
    /\ rafQueue = {[id |-> 1, gen |-> 1]}
    /\ animationIdRef = 1
    /\ rafSeq = 1
    /\ loads = {}
    /\ sceneChildren = [g \in {1} |-> {1}]
    /\ cameraZ = CameraDistance(Vertices)
    /\ everLoaded = TRUE
    /\ userAgentMobile = FALSE
    /\ viewport = <<1024, 768>>
    /\ cameraAspect = viewport
    /\ rendererSize = viewport
    /\ isLoading = FALSE
    /\ loadingError = FALSE
    /\ isMobile = FALSE
    /\ isMobileQueued = FALSE
    /\ mobileCause = "none"
    /\ pointsRef = (IF variant = "wave" THEN 1 ELSE 0)
    /\ brainMeshRef = (IF variant = "impulse" THEN 1 ELSE 0)
    /\ originalPositionsRef = Vertices
    /\ pointsPosition =
           (IF variant = "wave" THEN PointsPositionFor(Vertices, FALSE) ELSE ZeroVec)
    /\ rotationY = 0
    /\ positions = Vertices
    /\ \E draw \in PhysicsDraws(1) :
           particlePhysics =
               IF variant = "wave"
               THEN [i \in 1..Len(Vertices) |->
                        [velocity |-> ZeroVec, originalPosition |-> Vertices[i],
                         offset |-> ZeroVec, wavePhase |-> draw[1], turbulence |-> draw[2]]]
               ELSE <<>>
    /\ targetOffsets = <<>>
    /\ isInteracting = FALSE
    /\ mousePosition = <<0, 0>>
    /\ previousMousePosition = <<0, 0>>
    /\ mouseVelocity = <<0, 0>>
    /\ interactionPoint = <<>>
    /\ waveTime = 0
    /\ frameLog = <<<<"render", 1>>>>
    /\ clock \in (IF variant = "wave" THEN NowAngles ELSE {0})
    /\ lastOp = "load"
    /\ inputs = 0
    /\ offsetAge = <<>>
    /\ offsetAtPress = <<>>
    /\ removedAge = <<>>
    /\ lastPress = [hitIndex |-> 0, rnd |-> ZeroVec]
    /\ waveTimeAtStart = 0

InitRest == LoadedAtRest(MaxRestFrames)

NextRest == FrameStep

SpecRest == InitRest /\ [][NextRest]_vars

\* ------------------------------------------------------------------------
\* Behaviours in which the presses stop: the impulse variant has loaded its
\* model, presses arrive during the first frames only, and the browser keeps
\* running the frames animate requests (part_001 146)
\* ------------------------------------------------------------------------

InitSettle == variant = "impulse" /\ LoadedAtRest(MaxSettleFrames)

\* a mousedown while the presses have not stopped
EarlyMouseDownStep == rafSeq < MaxPressFrames /\ MouseDownStep

NextSettle ==
    \/ FrameStep
    \/ EarlyMouseDownStep

\* the browser runs a requested animation frame: what a Frame step does to
\* the count of the requests
FrameRuns ==
    /\ rafQueue # {}
    /\ rafSeq < frameLimit
    /\ rafSeq' = rafSeq + 1

\* a requested frame is not postponed forever
SpecSettle == InitSettle /\ [][NextSettle]_vars /\ WF_rafSeq(FrameRuns)

\* ------------------------------------------------------------------------
\* Properties
\* ------------------------------------------------------------------------

\* the render React commits because a resize changed isMobile
ResizeRerenderTaken ==
    lastOp' = "rerender" /\ effectGen' # effectGen /\ mobileCause = "resize"

\* the load such a render started replaces the particles of a loaded model
ResizeLoadTaken ==
    /\ lastOp' = "load" /\ pointsRef # 0
    /\ \E ld \in loads : ld \notin loads' /\ ld.cause = "resize"

\* C1: a resize, also one that changes the mobile/desktop classification,
\* resets no particle's velocity, phase, turbulence or position, and the
\* running animation loop is neither cancelled nor restarted: the pending
\* frame stays the one the loop asked for, run by the same closure
C1_ResizeKeepsPhysicsAndLoop ==
    [][/\ (lastOp' = "resize" /\ inputs' # inputs) =>
              UNCHANGED <<particlePhysics, positions, rafQueue, effectGen>>
       /\ ResizeRerenderTaken => UNCHANGED <<rafQueue, effectGen>>
       /\ ResizeLoadTaken => UNCHANGED <<particlePhysics, positions>>]_vars

\* C2 as stated: after the end of an interaction the pointer velocity is
\* (0, 0) and the interaction point is null
C2_EndClearsPoint ==
    lastOp = "end" => (mouseVelocity = <<0, 0>> /\ interactionPoint = <<>>)

\* C2: the end of an interaction sets the pointer velocity to (0, 0) and
\* the interacting flag to false, and leaves the interaction point as it
\* was: a point set by an earlier start or move is retained, not cleared
C2_EndKeepsPoint ==
    [][lastOp' = "end" =>
          /\ mouseVelocity' = <<0, 0>>
          /\ ~isInteracting'
          /\ interactionPoint' = interactionPoint]_vars

\* an interaction on the loaded model has run for a frame and then ended
C2_EndedWithPoint ==
    /\ lastOp = "end"
    /\ interactionPoint # <<>>
    /\ waveTime > 0

\* C3: immediately after every interaction start (mousedown, touchstart)
\* the wave clock is zero: before the model has loaded, after it has
\* loaded, and after earlier interactions that advanced the clock
C3_StartResetsWaveClock ==
    lastOp = "start" => waveTime = 0

\* a start arrived while the clock of an earlier interaction stood above zero
C3_StartAfterAdvance ==
    /\ lastOp = "start"
    /\ waveTimeAtStart > 0
    /\ pointsRef # 0

\* C4 as stated: in both variants the pointer and touch handlers leave
\* every field of every particle (position, velocity, offset, original
\* position) unchanged
C4_HandlersChangeOnlyInteraction ==
    [][lastOp' \in {"start", "move", "end", "mousedown"} =>
          UNCHANGED <<positions, particlePhysics, targetOffsets, originalPositionsRef>>]_vars

\* C4: the start, move and end handlers of the wave variant leave every
\* field of every particle unchanged; the mousedown handler of the impulse
\* variant leaves positions and original positions unchanged but writes
\* the stored offsets itself, and only those of the vertices within the
\* radius of the hit vertex
C4_HandlersLeavePositions ==
    [][/\ lastOp' \in {"start", "move", "end"} =>
              UNCHANGED <<positions, particlePhysics, targetOffsets, originalPositionsRef>>
       /\ lastOp' = "mousedown" =>
              /\ UNCHANGED <<positions, particlePhysics, originalPositionsRef>>
              /\ \A i \in (DOMAIN targetOffsets) \cup (DOMAIN targetOffsets') :
                     \/ i \in DOMAIN targetOffsets /\ i \in DOMAIN targetOffsets'
                            /\ targetOffsets'[i] = targetOffsets[i]
                     \/ lastPress'.hitIndex # 0 /\ i \in Reached(lastPress'.hitIndex)]_vars

\* a press has changed the offsets of displaced particles
C4_PressOnDisplaced ==
    /\ lastOp = "mousedown"
    /\ lastPress.hitIndex # 0
    /\ DOMAIN targetOffsets # {}
    /\ positions # originalPositionsRef

\* C5: while no load has completed successfully (still in flight, or
\* failed) every animation frame skips the whole update: no particle, no
\* offset, no element of the position buffer and not the wave clock is
\* written, the frame only renders; and no input event arriving in that
\* period changes a particle either
C5_NoUpdateBeforeLoad ==
    [][(/\ ~everLoaded'
        /\ lastOp' \in {"frame", "rerender", "start", "move", "end", "mousedown", "resize"}) =>
          /\ UNCHANGED <<positions, particlePhysics, targetOffsets, originalPositionsRef, waveTime>>
          /\ positions' = <<>>
          /\ \A k \in DOMAIN frameLog' : frameLog'[k][1] = "render"]_vars

\* a frame has run after the load failed and an input event arrived
C5_FrameAfterFailedLoad ==
    /\ ~everLoaded
    /\ loadingError
    /\ loads = {}
    /\ inputs > 0
    /\ lastOp = "frame"

\* C6: once the effect's cleanup has run, no animation frame of the run it
\* tore down runs again and its listeners are detached: after the final
\* teardown no frame is pending, none runs, none writes a particle or the
\* position buffer and no input handler runs, whatever load completes
\* later; after the cleanup before a new effect run only that run's frame
\* and listeners remain
C6_TeardownStopsFrames ==
    [][/\ ~mounted =>
              /\ rafQueue' = {} /\ listeners' = {}
              /\ UNCHANGED <<rafSeq, animationIdRef, frameLog, inputs, waveTime, targetOffsets>>
              /\ lastOp' \in {"unmount", "load", "loadfail"}
       /\ \A cb \in rafQueue' : cb.gen = effectGen' /\ mounted'
       /\ listeners' \subseteq {effectGen'}
       /\ (lastOp' \in {"frame", "rerender"} /\ rafSeq' # rafSeq) =>
              frameLog'[Len(frameLog')] = <<"render", effectGen'>>]_vars

\* the component was torn down after frames had run, and a load completed
\* after the teardown
C6_LoadAfterTeardown ==
    /\ ~mounted
    /\ rafSeq > 1
    /\ lastOp = "load"

\* the particles a frame wrote to the position buffer, and the places in
\* the frame's log where it set the dirty flag
Written(log) == {log[k][2] : k \in {j \in DOMAIN log : log[j][1] = "write"}}

DirtyAt(log) == {k \in DOMAIN log : log[k][1] = "dirty"}

\* the dirty flag is set at most once, after the last write and before the
\* render, and the frame wrote either every particle or none
PublishedInOrder(log) ==
    /\ Cardinality(DirtyAt(log)) <= 1
    /\ log[Len(log)][1] = "render"
    /\ \A k \in DOMAIN log : \A m \in DirtyAt(log) : log[k][1] = "write" => k < m
    /\ \A k \in DOMAIN log : log[k][1] = "render" => k = Len(log)
    /\ Written(log) \in {{}, DOMAIN positions}

\* C7 as stated: every frame in which particles exist sets the dirty flag
\* exactly once, after the last particle has been updated and before the
\* renderer draws; every frame that writes the buffer sets the flag
C7_DirtyExactlyOnce ==
    (lastOp \in {"frame", "rerender"} /\ positions # <<>>) =>
        /\ PublishedInOrder(frameLog)
        /\ Written(frameLog) # {}
        /\ Cardinality(DirtyAt(frameLog)) = 1

\* C7: in every frame in which particles exist every particle is written,
\* the dirty flag is set at most once, after the last write and before the
\* render; the wave variant sets it in every such frame; the impulse
\* variant sets it exactly when some particle had a stored offset at the
\* start of the frame or ends the frame farther than sqrt(0.001) from its
\* rest position, so a frame can write the buffer without setting the flag
C7_DirtyAfterAllWrites ==
    [][(lastOp' \in {"frame", "rerender"} /\ rafSeq' # rafSeq /\ positions # <<>>) =>
          /\ PublishedInOrder(frameLog')
          /\ Written(frameLog') = DOMAIN positions
          /\ variant = "wave" => Cardinality(DirtyAt(frameLog')) = 1
          /\ variant = "impulse" =>
                 (Cardinality(DirtyAt(frameLog')) = 1
                     <=> \/ DOMAIN targetOffsets # {}
                         \/ \E i \in DOMAIN positions :
                                DistanceToSquared(positions'[i], originalPositionsRef[i])
                                    > OFFSET_EPSILON_SQ)]_vars

\* an impulse frame wrote every vertex of the resting model and did not
\* set the dirty flag
C7_WriteWithoutDirty ==
    /\ variant = "impulse"
    /\ lastOp = "frame"
    /\ Written(frameLog) = DOMAIN positions
    /\ positions # <<>>
    /\ DirtyAt(frameLog) = {}

\* DECAY_FACTOR to the power n
RECURSIVE DecayPow(_)
DecayPow(n) == IF n = 0 THEN SCALE ELSE Mul(DecayPow(n - 1), DECAY_FACTOR)

\* the stored offset of particle i is offset_0 * DECAY_FACTOR^n, n the
\* frames since its last press, up to one unit of rounding per frame
DecayLaw(offsets, atPress, age, i) ==
    \A c \in 1..3 :
        Abs(offsets[i][c] - Mul(atPress[i][c], DecayPow(age[i]))) <= age[i]

\* C8: in the impulse variant, n frames after the last press on a particle
\* its stored offset is offset_0 * DECAY_FACTOR^n (so its magnitude is
\* |offset_0| * DECAY_FACTOR^n), and a frame removes the offset exactly
\* when the decayed offset of that frame has squared length below 0.001:
\* no stored offset that has been through a frame is below the threshold,
\* and no offset is removed whose decayed value is at or above it
C8_DecayAndRemoval ==
    [][/\ \A i \in DOMAIN targetOffsets' :
              /\ DecayLaw(targetOffsets', offsetAtPress', offsetAge', i)
              /\ offsetAge'[i] >= 1 => LengthSq(targetOffsets'[i]) >= OFFSET_EPSILON_SQ
       /\ (lastOp' = "frame" /\ rafSeq' # rafSeq) =>
              \A i \in DOMAIN targetOffsets :
                  /\ i \notin DOMAIN targetOffsets'
                         <=> LengthSq(MultiplyScalar(targetOffsets[i], DECAY_FACTOR))
                                 < OFFSET_EPSILON_SQ
                  /\ i \notin DOMAIN targetOffsets' => removedAge'[i] = offsetAge[i] + 1
                  /\ i \in DOMAIN targetOffsets' => offsetAge'[i] = offsetAge[i] + 1]_vars

\* one offset was removed by the first frame after its press, another
\* survived the first frame and was removed by the second
C8_RemovedAtSecondFrame ==
    /\ \E i \in DOMAIN removedAge : removedAge[i] = 2 /\ LengthSq(offsetAtPress[i]) > 0
    /\ \E i \in DOMAIN removedAge : removedAge[i] = 1
    /\ \E i \in DOMAIN targetOffsets : offsetAge[i] = 2

\* a vector of length 1, up to the rounding of the square root
UnitLength(v) == Abs(Length(v) - SCALE) <= 2

\* C9: when a pressed particle coincides with the interaction point (in
\* the impulse variant the hit vertex itself) the direction of its push is
\* a vector of unit length for every outcome of the random draws
C9_FallbackDirectionIsUnit ==
    (lastOp = "mousedown" /\ lastPress.hitIndex # 0) =>
        /\ UnitLength(PressDirection(lastPress.hitIndex, lastPress.hitIndex, lastPress.rnd))
        /\ inputs = 1 => Abs(Length(targetOffsets[lastPress.hitIndex]) - PUSH_STRENGTH) <= 2

\* the particles of a press at vertex h the claim speaks of: 0 < d < R
PushedAway(h) ==
    {i \in Reached(h) : originalPositionsRef[i] # originalPositionsRef[h]}

\* particle rest position - interaction point
Away(i, h) == VSub(originalPositionsRef[i], originalPositionsRef[h])

\* C10 as stated: after a press, the offset of every particle at distance
\* 0 < d < R from the interaction point has strictly positive dot product
\* with (rest position - interaction point), also when the particle
\* already carried an offset from earlier presses
C10_OffsetPointsAway ==
    (lastOp = "mousedown" /\ lastPress.hitIndex # 0) =>
        \A i \in PushedAway(lastPress.hitIndex) :
            Dot(targetOffsets[i], Away(i, lastPress.hitIndex)) > 0

\* C10: the offset a press adds to a particle at distance 0 < d < R (its
\* offset after the press minus the offset it carried before) has
\* non-negative dot product with (rest position - interaction point),
\* strictly positive when the strength PUSH_STRENGTH * (1 - d / R) is not
\* zero; the resulting offset need not have
C10_AddedOffsetPointsAway ==
    [][(lastOp' = "mousedown" /\ inputs' # inputs /\ lastPress'.hitIndex # 0) =>
          \A i \in PushedAway(lastPress'.hitIndex) :
              LET before == IF i \in DOMAIN targetOffsets THEN targetOffsets[i] ELSE ZeroVec
                  added == VSub(targetOffsets'[i], before)
              IN /\ Dot(added, Away(i, lastPress'.hitIndex)) >= 0
                 /\ PressStrength(i, lastPress'.hitIndex) > 0 =>
                        Dot(added, Away(i, lastPress'.hitIndex)) > 0]_vars

\* after a second press a particle's offset points toward the interaction
\* point, because an earlier press from the other side pushed it harder
C10_OffsetTowardPoint ==
    /\ lastOp = "mousedown"
    /\ lastPress.hitIndex # 0
    /\ \E i \in PushedAway(lastPress.hitIndex) :
           Dot(targetOffsets[i], Away(i, lastPress.hitIndex)) < 0

\* the distance the breathing term can hold a resting particle from its
\* original position at 60 frames a second: 0.04 (the first swing after the
\* load; 0.011 once the swing has died down)
REST_EPSILON == 4 * (SCALE \div 100)

\* C11: from rest (zero velocity, zero offset, position equal to the
\* original position) and with no interaction ever active, after any number
\* of frames every value in the position buffer is within a fixed small
\* epsilon of the particle's original position; the deviation does not grow
\* with the number of frames
C11_RestInvariance ==
    (interactionPoint = <<>> /\ ~isInteracting /\ lastPress.hitIndex = 0) =>
        \A i \in DOMAIN positions :
            DistanceToSquared(positions[i], originalPositionsRef[i])
                <= REST_EPSILON * REST_EPSILON

\* more than a full period of the breathing term has passed since the load
\* and the buffer of the wave variant is off the original positions
C11_RestAfterFullPeriod ==
    /\ variant = "wave"
    /\ lastOp = "frame"
    /\ interactionPoint = <<>> /\ ~isInteracting
    /\ clock > TWO_PI + PI \div 2
    /\ \E i \in DOMAIN positions : positions[i] # originalPositionsRef[i]

\* a step in which animate of the wave variant updated the particles
WaveFrameTaken ==
    /\ lastOp' \in {"frame", "rerender"}
    /\ rafSeq' # rafSeq
    /\ variant = "wave"
    /\ WaveGuard

\* the particles animate adds no interaction force to in the next frame
Unforced == {i \in DOMAIN particlePhysics : ~Pushed(particlePhysics[i], rotationY + 1)}

\* C12 as stated: in every frame in which no interaction force is applied to
\* a particle its speed after the frame is at most FRICTION times its speed
\* before the frame, also when the particle is displaced from rest
C12_SpeedShrinksByFriction ==
    [][WaveFrameTaken =>
          \A i \in Unforced :
              Length(particlePhysics'[i].velocity)
                  <= Mul(FRICTION, Length(particlePhysics[i].velocity)) + 3]_vars

\* C12: in every frame in which no interaction force is applied to a
\* particle its speed after the frame is at most FRICTION times the sum of
\* its speed before the frame and MAGNETIC_FORCE times its distance from
\* its original position (3 units of rounding allowed); for a particle at
\* its original position that is FRICTION times its speed before
C12_SpeedBoundedBySpring ==
    [][WaveFrameTaken =>
          \A i \in Unforced :
              Length(particlePhysics'[i].velocity)
                  <= Mul(FRICTION,
                         Length(particlePhysics[i].velocity)
                             + Mul(MAGNETIC_FORCE,
                                   DistanceTo(particlePhysics[i].originalPosition, positions[i])))
                     + 3]_vars

\* a frame without interaction force has run on a moving, displaced
\* particle after an interaction had pushed it
C12_UnforcedDisplaced ==
    /\ variant = "wave"
    /\ lastOp = "frame"
    /\ ~isInteracting
    /\ interactionPoint # <<>>
    /\ \E i \in DOMAIN particlePhysics :
           /\ Length(particlePhysics[i].velocity) > SCALE \div 100
           /\ positions[i] # originalPositionsRef[i]

\* a step in which animate of the wave variant ran
WaveAnimateTaken ==
    /\ lastOp' \in {"frame", "rerender"}
    /\ rafSeq' # rafSeq
    /\ variant = "wave"

\* C13 as stated: a frame advances the wave clock by 0.1 if the interaction
\* is active and leaves it unchanged otherwise
C13_ClockAdvancesIffActive ==
    [][WaveAnimateTaken =>
          waveTime' = (IF isInteracting THEN waveTime + SCALE \div 10 ELSE waveTime)]_vars

\* C13: a frame advances the wave clock by 0.1 if the interaction is active
\* and a model is loaded, leaves it unchanged otherwise, and so never
\* decreases it
C13_ClockAdvancesIffActiveAndLoaded ==
    [][WaveAnimateTaken =>
          /\ waveTime' = (IF isInteracting /\ pointsRef # 0 /\ originalPositionsRef # <<>>
                          THEN waveTime + SCALE \div 10
                          ELSE waveTime)
          /\ waveTime' >= waveTime]_vars

\* a frame ran during an active interaction over a loaded model, after an
\* earlier frame had run during an active interaction without a model
C13_ActiveFrameAdvanced ==
    /\ variant = "wave"
    /\ lastOp = "frame"
    /\ isInteracting
    /\ pointsRef # 0
    /\ waveTime = SCALE \div 10
    /\ rafSeq >= 3

\* C14: the breathing displacement written to the buffer has no effect on
\* any particle's velocity in a later frame. With the breathing term set to
\* zero a model that starts at rest and is never touched keeps every
\* velocity at zero, so with the term applied every velocity is zero too
C14_BreathingNotFedBack ==
    (variant = "wave" /\ interactionPoint = <<>> /\ ~isInteracting) =>
        \A i \in DOMAIN particlePhysics : particlePhysics[i].velocity = ZeroVec

\* the largest distance from its original position at which the easing
\* leaves a coordinate: (original - current) * LERP_FACTOR rounds to nothing
SETTLE_EPSILON == SCALE \div 500

\* no offset is active and every vertex is at its original position
SettledExactly ==
    /\ targetOffsets = <<>>
    /\ positions = originalPositionsRef

\* no offset is active and every vertex is within SETTLE_EPSILON of its
\* original position
SettledNearly ==
    /\ targetOffsets = <<>>
    /\ \A i \in DOMAIN positions :
           DistanceToSquared(positions[i], originalPositionsRef[i])
               <= SETTLE_EPSILON * SETTLE_EPSILON

\* C15 as stated: once the presses have stopped and frames keep running,
\* eventually no offset is active and every vertex is exactly at its
\* original position, and both stay so
C15_SettlesExactly ==
    <>[]SettledExactly

\* C15: once the presses have stopped and frames keep running, eventually
\* no offset is active and every vertex is within SETTLE_EPSILON of its
\* original position, and both stay so
C15_SettlesNearly ==
    <>[]SettledNearly

\* a pressed vertex has lost its offset and come to a halt beside its
\* original position: one more frame leaves every vertex where it is
C15_HaltedBesideRest ==
    /\ variant = "impulse"
    /\ lastOp = "frame"
    /\ targetOffsets = <<>>
    /\ removedAge # <<>>
    /\ positions # originalPositionsRef
    /\ ImpulseUpdate.positions = positions

\* C16: at every time at most one particle model is attached to the scene
\* being rendered (the scene of the latest effect run), and an attached
\* model is the one whose buffer the per-frame update mutates (pointsRef)
C16_OneModelInRenderedScene ==
    (variant = "wave" /\ mounted) =>
        /\ Cardinality(sceneChildren[sceneRef]) <= 1
        /\ \A model \in sceneChildren[sceneRef] : model = pointsRef

\* C17: in every frame in which the interaction is not active each
\* particle's new velocity is FRICTION times (its velocity + MAGNETIC_FORCE
\* times (original position - current position)), whatever interaction
\* point and wave clock are stored; and only a start event makes the
\* interaction active
C17_IdleFrameAddsNoInteractionForce ==
    [][/\ (WaveFrameTaken /\ ~isInteracting) =>
              \A i \in DOMAIN particlePhysics :
                  particlePhysics'[i].velocity
                      = MultiplyScalar(
                            VAdd(particlePhysics[i].velocity,
                                 MultiplyScalar(VSub(particlePhysics[i].originalPosition,
                                                     positions[i]),
                                                MAGNETIC_FORCE)),
                            FRICTION)
       /\ (~isInteracting /\ isInteracting') => lastOp' = "start"]_vars

\* a frame ran while the interaction was not active, with the point and the
\* clock of an earlier interaction stored and a particle within
\* INTERACTION_RADIUS of that point
C17_IdleFrameNearStoredPoint ==
    /\ variant = "wave"
    /\ lastOp = "frame"
    /\ ~isInteracting
    /\ interactionPoint # <<>>
    /\ waveTime > 0
    /\ \E i \in DOMAIN particlePhysics :
           DistanceTo(particlePhysics[i].originalPosition,
                      WorldToLocal(interactionPoint[1], pointsPosition, rotationY))
               < INTERACTION_RADIUS

====
